---- MODULE Spec2Model ----
(***************************************************************************)
(* The error taxonomy of src/errors/index.ts: OAuth2Error (the provider    *)
(* error), the seven flow-specific SdkError subclasses and the two         *)
(* access-token variants.  Instances live in two heaps; an instance is     *)
(* identified by its index, so that "the same instance" can be told from   *)
(* "an equal copy".                                                        *)
(***************************************************************************)
EXTENDS Naturals, Sequences, FiniteSets, TLC

VARIABLES
    oauth2Errors,   \* heap of OAuth2Error instances, in order of construction
    oauth2Calls,    \* oauth2Calls[i]: the arguments of the call that built oauth2Errors[i]
    errors,         \* heap of the other SdkError instances, in order of construction
    calls,          \* calls[i]: the constructor call that built errors[i]
    writes,         \* how many property assignments holders of instances have made
    pc,             \* where the access-token retrieval attempt stands
    kind,           \* which token the attempt retrieves: "session" or "connection"
    trace,          \* the checks the attempt has made, in order, with what each found
    response,       \* what the provider answered to the refresh / exchange request
    outcome         \* how the attempt ended

heaps == <<oauth2Errors, oauth2Calls, errors, calls>>

retrieval == <<pc, kind, trace, response, outcome>>

vars == <<oauth2Errors, oauth2Calls, errors, calls, writes, pc, kind, trace, response, outcome>>

\* Bounds of the model: how many instances of each heap are constructed, and how
\* many assignments holders make.
MaxOAuth2Errors == 2
MaxErrors == 2
MaxWrites == 1

(***************************************************************************)
(* Optional values.  An optional parameter or property (message?, cause?)  *)
(* is the empty tuple when it is undefined and a one-element tuple         *)
(* otherwise.                                                              *)
(***************************************************************************)
Undefined == << >>

Some(v) == <<v>>

\* x ?? d : d only when x is undefined; an empty string is kept.
Coalesce(x, d) == IF x = Undefined THEN d ELSE x[1]

(***************************************************************************)
(* Constructors, as the instance each one returns.                         *)
(***************************************************************************)
\* A constructor that replaces an empty code instead of storing it.
OAuth2Error_ReplacesEmptyCode(code, message) ==
    [ name    |-> "OAuth2Error",
      code    |-> IF code = "" THEN "unknown_error" ELSE code,
      message |-> Coalesce(message,
                    "An error occured while interacting with the authorization server.") ]

OAuth2Error(code, message) ==
    [ name    |-> "OAuth2Error",
      code    |-> code,
      message |-> Coalesce(message,
                    "An error occured while interacting with the authorization server.") ]

DiscoveryError(message) ==
    [ name    |-> "DiscoveryError",
      code    |-> "discovery_error",
      message |-> Coalesce(message,
                    "Discovery failed for the OpenID Connect configuration."),
      cause   |-> Undefined ]

\* The code of the neighbouring class, as left by a copied class body.
MissingStateError_CopiedCode(message) ==
    [ name    |-> "MissingStateError",
      code    |-> "invalid_state",
      message |-> Coalesce(message, "The state parameter is missing."),
      cause   |-> Undefined ]

MissingStateError(message) ==
    [ name    |-> "MissingStateError",
      code    |-> "missing_state",
      message |-> Coalesce(message, "The state parameter is missing."),
      cause   |-> Undefined ]

InvalidStateError(message) ==
    [ name    |-> "InvalidStateError",
      code    |-> "invalid_state",
      message |-> Coalesce(message, "The state parameter is invalid."),
      cause   |-> Undefined ]

\* The cause's message promoted to the outer message.
AuthorizationError_PromotesCause(cause, message) ==
    [ name    |-> "AuthorizationError",
      code    |-> "authorization_error",
      message |-> Coalesce(message, oauth2Errors[cause].message),
      cause   |-> Some(cause) ]

AuthorizationError(cause, message) ==
    [ name    |-> "AuthorizationError",
      code    |-> "authorization_error",
      message |-> Coalesce(message,
                    "An error occured during the authorization flow."),
      cause   |-> Some(cause) ]

AuthorizationCodeGrantRequestError(message) ==
    [ name    |-> "AuthorizationCodeGrantRequestError",
      code    |-> "authorization_code_grant_request_error",
      message |-> Coalesce(message,
                    "An error occured while preparing or performing the authorization code grant request."),
      cause   |-> Undefined ]

\* A constructor that forgets `this.cause = cause`.
AuthorizationCodeGrantError_DropsCause(cause, message) ==
    [ name    |-> "AuthorizationCodeGrantError",
      code    |-> "authorization_code_grant_error",
      message |-> Coalesce(message,
                    "An error occured while trying to exchange the authorization code."),
      cause   |-> Undefined ]

AuthorizationCodeGrantError(cause, message) ==
    [ name    |-> "AuthorizationCodeGrantError",
      code    |-> "authorization_code_grant_error",
      message |-> Coalesce(message,
                    "An error occured while trying to exchange the authorization code."),
      cause   |-> Some(cause) ]

BackchannelLogoutError(message) ==
    [ name    |-> "BackchannelLogoutError",
      code    |-> "backchannel_logout_error",
      message |-> Coalesce(message,
                    "An error occured while completing the backchannel logout request."),
      cause   |-> Undefined ]

AccessTokenErrorCode ==
    { "missing_session", "missing_refresh_token", "failed_to_refresh_token" }

\* A constructor that forgets `this.cause = cause`.
AccessTokenError_DropsCause(code, message, cause) ==
    [ name    |-> "AccessTokenError",
      code    |-> code,
      message |-> message,
      cause   |-> Undefined ]

AccessTokenError(code, message, cause) ==
    [ name    |-> "AccessTokenError",
      code    |-> code,
      message |-> message,
      cause   |-> cause ]

AccessTokenForConnectionErrorCode ==
    { "missing_session", "missing_refresh_token", "failed_to_exchange_refresh_token" }

AccessTokenForConnectionError(code, message, cause) ==
    [ name    |-> "AccessTokenForConnectionError",
      code    |-> code,
      message |-> message,
      cause   |-> cause ]

(***************************************************************************)
(* Inputs of the constructor calls.                                        *)
(***************************************************************************)
\* code of an OAuth2Error: any string, the empty one included
ProviderCodes == { "", "access_denied" }

\* message? of an OAuth2Error
ProviderMessages == { Undefined, Some("User declined") }

\* message? of a flow-specific error
Messages == { Undefined, Some("custom message") }

\* cause: a reference to an OAuth2Error instance (one that exists, see the guards)
CauseRefs == 1 .. MaxOAuth2Errors

\* cause? of an access-token error
OptionalCauseRefs == { Undefined } \cup { Some(i) : i \in CauseRefs }

\* code of an access-token error: the parameter is a string
TokenCodes ==
    AccessTokenErrorCode \cup AccessTokenForConnectionErrorCode \cup { "unlisted_code" }

\* message of an access-token error
TokenMessages == { "token message" }

\* what a holder assigns to a string property
HolderStrings == { "tampered" }

Call(ctor, code, message, cause) ==
    [ ctor |-> ctor, code |-> code, message |-> message, cause |-> cause,
      \* the instance the cause referred to when the call was made
      causeWas |-> IF cause = Undefined THEN Undefined
                   ELSE Some(oauth2Errors[cause[1]]) ]

\* An optional cause refers to an instance that exists.
Refers(cause) == IF cause = Undefined THEN TRUE ELSE cause[1] \in DOMAIN oauth2Errors

Pending == [ status |-> "pending", thrown |-> Undefined ]

Init ==
    /\ oauth2Errors = << >>
    /\ oauth2Calls = << >>
    /\ errors = << >>
    /\ calls = << >>
    /\ writes = 0
    /\ pc = "idle"
    /\ kind = "session"
    /\ trace = << >>
    /\ response = Undefined
    /\ outcome = Pending

(***************************************************************************)
(* Constructor calls.                                                      *)
(***************************************************************************)
\* new OAuth2Error({ code, message })
NewOAuth2Error(code, message) ==
    /\ Len(oauth2Errors) < MaxOAuth2Errors
    /\ oauth2Errors' = Append(oauth2Errors, OAuth2Error(code, message))
    /\ oauth2Calls' = Append(oauth2Calls, [ code |-> code, message |-> message ])
    /\ UNCHANGED <<errors, calls, writes, retrieval>>

\* The instance `e` built by the constructor call `c` joins the heap.
Construct(e, c) ==
    /\ errors' = Append(errors, e)
    /\ calls' = Append(calls, c)
    /\ UNCHANGED <<oauth2Errors, oauth2Calls, writes, retrieval>>

NewDiscoveryError(message) ==
    /\ Len(errors) < MaxErrors
    /\ Construct(DiscoveryError(message),
                 Call("DiscoveryError", Undefined, message, Undefined))

NewMissingStateError(message) ==
    /\ Len(errors) < MaxErrors
    /\ Construct(MissingStateError(message),
                 Call("MissingStateError", Undefined, message, Undefined))

NewInvalidStateError(message) ==
    /\ Len(errors) < MaxErrors
    /\ Construct(InvalidStateError(message),
                 Call("InvalidStateError", Undefined, message, Undefined))

NewAuthorizationError(cause, message) ==
    /\ Len(errors) < MaxErrors
    /\ cause \in DOMAIN oauth2Errors
    /\ Construct(AuthorizationError(cause, message),
                 Call("AuthorizationError", Undefined, message, Some(cause)))

NewAuthorizationCodeGrantRequestError(message) ==
    /\ Len(errors) < MaxErrors
    /\ Construct(AuthorizationCodeGrantRequestError(message),
                 Call("AuthorizationCodeGrantRequestError", Undefined, message, Undefined))

NewAuthorizationCodeGrantError(cause, message) ==
    /\ Len(errors) < MaxErrors
    /\ cause \in DOMAIN oauth2Errors
    /\ Construct(AuthorizationCodeGrantError(cause, message),
                 Call("AuthorizationCodeGrantError", Undefined, message, Some(cause)))

NewBackchannelLogoutError(message) ==
    /\ Len(errors) < MaxErrors
    /\ Construct(BackchannelLogoutError(message),
                 Call("BackchannelLogoutError", Undefined, message, Undefined))

NewAccessTokenError(code, message, cause) ==
    /\ Len(errors) < MaxErrors
    /\ Refers(cause)
    /\ Construct(AccessTokenError(code, message, cause),
                 Call("AccessTokenError", Some(code), Some(message), cause))

NewAccessTokenForConnectionError(code, message, cause) ==
    /\ Len(errors) < MaxErrors
    /\ Refers(cause)
    /\ Construct(AccessTokenForConnectionError(code, message, cause),
                 Call("AccessTokenForConnectionError", Some(code), Some(message), cause))

\* The flows that end in a provider error or a flow-specific error.
Next ==
    \/ \E code \in ProviderCodes, message \in ProviderMessages :
          NewOAuth2Error(code, message)
    \/ \E message \in Messages : NewDiscoveryError(message)
    \/ \E message \in Messages : NewMissingStateError(message)
    \/ \E message \in Messages : NewInvalidStateError(message)
    \/ \E cause \in CauseRefs, message \in Messages : NewAuthorizationError(cause, message)
    \/ \E message \in Messages : NewAuthorizationCodeGrantRequestError(message)
    \/ \E cause \in CauseRefs, message \in Messages :
          NewAuthorizationCodeGrantError(cause, message)
    \/ \E message \in Messages : NewBackchannelLogoutError(message)

Spec == Init /\ [][Next]_vars

\* The callers of the two access-token constructors.
TokenNext ==
    \/ \E code \in ProviderCodes, message \in ProviderMessages :
          NewOAuth2Error(code, message)
    \/ \E code \in TokenCodes, message \in TokenMessages, cause \in OptionalCauseRefs :
          NewAccessTokenError(code, message, cause)
    \/ \E code \in TokenCodes, message \in TokenMessages, cause \in OptionalCauseRefs :
          NewAccessTokenForConnectionError(code, message, cause)

TokenSpec == Init /\ [][TokenNext]_vars

(***************************************************************************)
(* Holders of an instance.  `code` and `cause` are declared public and not *)
(* readonly, and `message` is the writable property every Error has, so    *)
(* code that holds an instance can assign to them.                         *)
(***************************************************************************)
ErrorRefs == 1 .. MaxErrors

\* error.code = v
AssignCode(i, v) ==
    /\ writes < MaxWrites
    /\ i \in DOMAIN errors
    /\ errors' = [errors EXCEPT ![i].code = v]
    /\ writes' = writes + 1
    /\ UNCHANGED <<oauth2Errors, oauth2Calls, calls, retrieval>>

\* error.message = v
AssignMessage(i, v) ==
    /\ writes < MaxWrites
    /\ i \in DOMAIN errors
    /\ errors' = [errors EXCEPT ![i].message = v]
    /\ writes' = writes + 1
    /\ UNCHANGED <<oauth2Errors, oauth2Calls, calls, retrieval>>

\* error.cause = c
AssignCause(i, c) ==
    /\ writes < MaxWrites
    /\ i \in DOMAIN errors
    /\ Refers(c)
    /\ errors' = [errors EXCEPT ![i].cause = c]
    /\ writes' = writes + 1
    /\ UNCHANGED <<oauth2Errors, oauth2Calls, calls, retrieval>>

\* oauth2Error.code = v
AssignOAuth2Code(i, v) ==
    /\ writes < MaxWrites
    /\ i \in DOMAIN oauth2Errors
    /\ oauth2Errors' = [oauth2Errors EXCEPT ![i].code = v]
    /\ writes' = writes + 1
    /\ UNCHANGED <<oauth2Calls, errors, calls, retrieval>>

\* oauth2Error.message = v
AssignOAuth2Message(i, v) ==
    /\ writes < MaxWrites
    /\ i \in DOMAIN oauth2Errors
    /\ oauth2Errors' = [oauth2Errors EXCEPT ![i].message = v]
    /\ writes' = writes + 1
    /\ UNCHANGED <<oauth2Calls, errors, calls, retrieval>>

\* Every constructor, and what a holder of an instance can do to it.
HolderNext ==
    \/ Next
    \/ \E code \in TokenCodes, message \in TokenMessages, cause \in OptionalCauseRefs :
          NewAccessTokenError(code, message, cause)
    \/ \E code \in TokenCodes, message \in TokenMessages, cause \in OptionalCauseRefs :
          NewAccessTokenForConnectionError(code, message, cause)
    \/ \E i \in ErrorRefs, v \in HolderStrings : AssignCode(i, v)
    \/ \E i \in ErrorRefs, v \in HolderStrings : AssignMessage(i, v)
    \/ \E i \in ErrorRefs, c \in OptionalCauseRefs : AssignCause(i, c)
    \/ \E i \in CauseRefs, v \in HolderStrings : AssignOAuth2Code(i, v)
    \/ \E i \in CauseRefs, v \in HolderStrings : AssignOAuth2Message(i, v)

HolderSpec == Init /\ [][HolderNext]_vars

(***************************************************************************)
(* An access-token retrieval attempt: the session / refresh manager that   *)
(* throws the two access-token variants.  One attempt checks the session,  *)
(* then (when it has to refresh) the refresh token, then asks the          *)
(* provider, and ends in success or in one thrown error.                   *)
(***************************************************************************)
TokenKinds == { "session", "connection" }

\* What the provider answers: Undefined when it accepts, its error when it rejects.
ProviderResponses ==
    { Undefined } \cup
    { Some([ code |-> c, message |-> m ]) :
          c \in { "invalid_grant", "access_denied" }, m \in ProviderMessages }

\* The code of the provider-communication failure of each variant.
FailureCode(k) ==
    IF k = "session" THEN "failed_to_refresh_token" ELSE "failed_to_exchange_refresh_token"

\* The variant each kind of attempt throws.
TokenErrorName(k) ==
    IF k = "session" THEN "AccessTokenError" ELSE "AccessTokenForConnectionError"

TokenError(k, code, message, cause) ==
    IF k = "session" THEN AccessTokenError(code, message, cause)
    ELSE AccessTokenForConnectionError(code, message, cause)

Checked(check, ok) == [ check |-> check, ok |-> ok ]

\* throw new AccessTokenError(code, message, cause): the attempt ends
Throw(code, message, cause) ==
    /\ errors' = Append(errors, TokenError(kind, code, message, cause))
    /\ calls' = Append(calls, [ ctor |-> TokenErrorName(kind), code |-> Some(code),
                                message |-> Some(message), cause |-> cause,
                                causeWas |-> IF cause = Undefined THEN Undefined
                                             ELSE Some(oauth2Errors'[cause[1]]) ])
    /\ outcome' = [ status |-> "error", thrown |-> Some(Len(errors) + 1) ]
    /\ pc' = "done"

Succeed ==
    /\ outcome' = [ status |-> "success", thrown |-> Undefined ]
    /\ pc' = "done"
    /\ UNCHANGED <<errors, calls>>

\* A caller asks for a token.
StartAttempt(k) ==
    /\ pc = "idle"
    /\ Len(errors) < MaxErrors
    /\ Len(oauth2Errors) < MaxOAuth2Errors
    /\ pc' = "start"
    /\ kind' = k
    /\ trace' = << >>
    /\ response' = Undefined
    /\ outcome' = Pending
    /\ UNCHANGED <<heaps, writes>>

\* 1. is there a session?
CheckSession(present) ==
    /\ pc = "start"
    /\ trace' = Append(trace, Checked("session", present))
    /\ IF present
       THEN pc' = "session" /\ UNCHANGED <<errors, calls, outcome>>
       ELSE Throw("missing_session", "token message", Undefined)
    /\ UNCHANGED <<oauth2Errors, oauth2Calls, writes, kind, response>>

\* 2. when the token has to be refreshed: does the session hold a refresh token?
CheckRefreshToken(refreshing, present) ==
    /\ pc = "session"
    /\ IF ~refreshing
       THEN Succeed /\ UNCHANGED trace
       ELSE /\ trace' = Append(trace, Checked("refresh_token", present))
            /\ IF present
               THEN pc' = "refresh" /\ UNCHANGED <<errors, calls, outcome>>
               ELSE Throw("missing_refresh_token", "token message", Undefined)
    /\ UNCHANGED <<oauth2Errors, oauth2Calls, writes, kind, response>>

\* 3. the refresh / exchange request, and what the provider answers
Refresh(answer) ==
    /\ pc = "refresh"
    /\ response' = answer
    /\ trace' = Append(trace, Checked("provider", answer = Undefined))
    /\ IF answer = Undefined
       THEN Succeed /\ UNCHANGED <<oauth2Errors, oauth2Calls>>
       ELSE /\ oauth2Errors' =
                  Append(oauth2Errors, OAuth2Error(answer[1].code, answer[1].message))
            /\ oauth2Calls' = Append(oauth2Calls, answer[1])
            /\ Throw(FailureCode(kind), "token message", Some(Len(oauth2Errors) + 1))
    /\ UNCHANGED <<writes, kind>>

\* The caller has the token or the error.
Return ==
    /\ pc = "done"
    /\ pc' = "idle"
    /\ UNCHANGED <<heaps, writes, kind, trace, response, outcome>>

RetrievalStep ==
    \/ \E present \in BOOLEAN : CheckSession(present)
    \/ \E refreshing \in BOOLEAN, present \in BOOLEAN : CheckRefreshToken(refreshing, present)
    \/ \E answer \in ProviderResponses : Refresh(answer)
    \/ Return

RetrievalNext ==
    \/ \E k \in TokenKinds : StartAttempt(k)
    \/ RetrievalStep

\* An attempt that has started runs to its end: each of its steps is a check of
\* local state or a request that the provider answers.
RetrievalSpec == Init /\ [][RetrievalNext]_vars /\ WF_vars(RetrievalStep)

(***************************************************************************)
(* What the specification documents for the seven flow-specific variants.  *)
(***************************************************************************)
DocumentedCode ==
    [ DiscoveryError |-> "discovery_error",
      MissingStateError |-> "missing_state",
      InvalidStateError |-> "invalid_state",
      AuthorizationError |-> "authorization_error",
      AuthorizationCodeGrantRequestError |-> "authorization_code_grant_request_error",
      AuthorizationCodeGrantError |-> "authorization_code_grant_error",
      BackchannelLogoutError |-> "backchannel_logout_error" ]

DocumentedDefault ==
    [ DiscoveryError |-> "Discovery failed for the OpenID Connect configuration.",
      MissingStateError |-> "The state parameter is missing.",
      InvalidStateError |-> "The state parameter is invalid.",
      AuthorizationError |-> "An error occurred during the authorization flow.",
      AuthorizationCodeGrantRequestError |->
          "An error occurred while preparing or performing the authorization code grant request.",
      AuthorizationCodeGrantError |->
          "An error occurred while trying to exchange the authorization code.",
      BackchannelLogoutError |->
          "An error occurred while completing the backchannel logout request." ]

FlowVariants == DOMAIN DocumentedCode

CauseVariants == { "AuthorizationError", "AuthorizationCodeGrantError" }

\* The instances a flow-specific constructor built.
FlowErrors == { i \in DOMAIN errors : calls[i].ctor \in FlowVariants }

\* The instances AuthorizationError or AuthorizationCodeGrantError built.
CauseErrors == { i \in DOMAIN errors : calls[i].ctor \in CauseVariants }

\* The OAuth2Error instance that errors[i].cause refers to.
CauseOf(i) == oauth2Errors[errors[i].cause[1]]

(***************************************************************************)
(* C1: each of the seven flow-specific variants, constructed without a     *)
(* message, carries exactly the default text the specification documents   *)
(* for it; constructed with a message, carries that message; and in both   *)
(* cases its code is the variant's fixed constant.                         *)
(***************************************************************************)
C1_DocumentedDefaults ==
    \A i \in FlowErrors :
        /\ errors[i].code = DocumentedCode[calls[i].ctor]
        /\ errors[i].message = Coalesce(calls[i].message, DocumentedDefault[calls[i].ctor])

(***************************************************************************)
(* C2: an OAuth2Error built without a message carries exactly "An error    *)
(* occurred while interacting with the authorization server."; built with  *)
(* a message it carries that message; its code is always the code given.   *)
(***************************************************************************)
C2_ProviderErrorDefault ==
    \A i \in DOMAIN oauth2Errors :
        /\ oauth2Errors[i].code = oauth2Calls[i].code
        /\ oauth2Errors[i].message =
              Coalesce(oauth2Calls[i].message,
                       "An error occurred while interacting with the authorization server.")

(***************************************************************************)
(* C3: an AccessTokenError has a cause if and only if its code is          *)
(* failed_to_refresh_token, and an AccessTokenForConnectionError has one   *)
(* if and only if its code is failed_to_exchange_refresh_token.            *)
(***************************************************************************)
C3_CauseIffProviderFailure ==
    \A i \in DOMAIN errors :
        /\ calls[i].ctor = "AccessTokenError" =>
              ((errors[i].cause # Undefined) <=> (errors[i].code = "failed_to_refresh_token"))
        /\ calls[i].ctor = "AccessTokenForConnectionError" =>
              ((errors[i].cause # Undefined) <=>
                  (errors[i].code = "failed_to_exchange_refresh_token"))

(***************************************************************************)
(* C4: the code of every AccessTokenError is a member of                   *)
(* AccessTokenErrorCode and the code of every                              *)
(* AccessTokenForConnectionError is a member of                            *)
(* AccessTokenForConnectionErrorCode.                                      *)
(***************************************************************************)
C4_CodeInEnumeration ==
    \A i \in DOMAIN errors :
        /\ calls[i].ctor = "AccessTokenError" => errors[i].code \in AccessTokenErrorCode
        /\ calls[i].ctor = "AccessTokenForConnectionError" =>
              errors[i].code \in AccessTokenForConnectionErrorCode

(***************************************************************************)
(* C5: every AuthorizationError and AuthorizationCodeGrantError has a      *)
(* cause, the cause is the very OAuth2Error instance passed to the         *)
(* constructor (the same reference, not another instance), and that        *)
(* instance still has the code and message it had when it was passed.      *)
(***************************************************************************)
C5_CauseIsThePassedInstance ==
    \A i \in CauseErrors :
        /\ errors[i].cause # Undefined
        /\ errors[i].cause = calls[i].cause
        /\ CauseOf(i) = calls[i].causeWas[1]

\* Both variants were built, one of them on an instance that has an equal twin,
\* so that the reference and not the value tells which instance was passed.
C5_Witness ==
    \E i, j \in CauseErrors :
        /\ calls[i].ctor = "AuthorizationError"
        /\ calls[j].ctor = "AuthorizationCodeGrantError"
        /\ \E k \in DOMAIN oauth2Errors :
              k # errors[j].cause[1] /\ oauth2Errors[k] = CauseOf(j)

(***************************************************************************)
(* C7: the outer message of an AuthorizationError or                       *)
(* AuthorizationCodeGrantError does not depend on the cause: two           *)
(* constructions of the same variant with the same message argument (or    *)
(* both without one) have the same message whatever their causes, and      *)
(* without a message argument the outer message is neither the cause's     *)
(* message nor the cause's code.                                           *)
(***************************************************************************)
C7_MessageIndependentOfCause ==
    /\ \A i, j \in CauseErrors :
          (calls[i].ctor = calls[j].ctor /\ calls[i].message = calls[j].message)
              => errors[i].message = errors[j].message
    /\ \A i \in CauseErrors :
          calls[i].message = Undefined
              => errors[i].message \notin { CauseOf(i).message, CauseOf(i).code }

\* Two constructions of one variant, both without a message, on causes whose
\* messages and codes differ.
C7_Witness ==
    \E i, j \in CauseErrors :
        /\ calls[i].ctor = "AuthorizationError"
        /\ calls[j].ctor = "AuthorizationError"
        /\ calls[i].message = Undefined
        /\ calls[j].message = Undefined
        /\ CauseOf(i).message # CauseOf(j).message
        /\ CauseOf(i).code # CauseOf(j).code

(***************************************************************************)
(* C9 as stated: constructing an OAuth2Error requires a non-empty code, so *)
(* no OAuth2Error instance comes from a call made with an empty code.      *)
(***************************************************************************)
C9_EmptyCodeRejected ==
    \A i \in DOMAIN oauth2Errors : oauth2Calls[i].code # ""

(***************************************************************************)
(* C9 as amended: the OAuth2Error constructor validates nothing: every     *)
(* call, with an empty code too, yields an OAuth2Error whose code is the   *)
(* string given, and while the heap has room a call with any code is       *)
(* possible.                                                               *)
(***************************************************************************)
C9_AnyCodeStored ==
    /\ Len(oauth2Errors) = Len(oauth2Calls)
    /\ \A i \in DOMAIN oauth2Errors :
          /\ oauth2Errors[i].name = "OAuth2Error"
          /\ oauth2Errors[i].code = oauth2Calls[i].code
    /\ Len(oauth2Errors) < MaxOAuth2Errors =>
          \A code \in ProviderCodes, message \in ProviderMessages :
              ENABLED NewOAuth2Error(code, message)

\* A call with an empty code has yielded an instance, next to one with a code.
C9_Witness ==
    \E i, j \in DOMAIN oauth2Errors :
        /\ oauth2Calls[i].code = ""
        /\ oauth2Errors[i].code = ""
        /\ oauth2Calls[j].code # ""

(***************************************************************************)
(* C10: the codes of the flow-specific variants tell the variants apart:   *)
(* two flow-specific errors with the same code were built by the same      *)
(* variant and carry the same name, and no flow-specific error has a code  *)
(* of AccessTokenErrorCode or AccessTokenForConnectionErrorCode; those two *)
(* enumerations share missing_session and missing_refresh_token.           *)
(***************************************************************************)
C10_CodeDeterminesVariant ==
    /\ \A i, j \in FlowErrors :
          errors[i].code = errors[j].code
              => (calls[i].ctor = calls[j].ctor /\ errors[i].name = errors[j].name)
    /\ \A i \in FlowErrors :
          /\ errors[i].name = calls[i].ctor
          /\ errors[i].code \notin AccessTokenErrorCode \cup AccessTokenForConnectionErrorCode
    /\ AccessTokenErrorCode \cap AccessTokenForConnectionErrorCode
          = { "missing_session", "missing_refresh_token" }

\* Two flow-specific errors of different variants.
C10_Witness ==
    \E i, j \in FlowErrors : calls[i].ctor # calls[j].ctor

(***************************************************************************)
(* C6: every error value is immutable once constructed: whatever a holder  *)
(* of an instance does, the instance keeps the code, message and cause it  *)
(* had when its constructor returned.                                      *)
(***************************************************************************)
C6_ImmutableOnceConstructed ==
    [][ /\ \A i \in DOMAIN errors : errors'[i] = errors[i]
        /\ \A i \in DOMAIN oauth2Errors : oauth2Errors'[i] = oauth2Errors[i] ]_vars

\* The error the attempt threw.
Thrown == errors[outcome.thrown[1]]

ThrownIs(code) ==
    /\ outcome.status = "error"
    /\ Thrown.name = TokenErrorName(kind)
    /\ Thrown.code = code

\* When an attempt has ended, its outcome is the one its checks lead to.
OutcomeFollowsChecks ==
    pc = "done" =>
        /\ outcome.status \in { "success", "error" }
        /\ outcome.status = "success" <=> outcome.thrown = Undefined
        /\ Len(trace) >= 1
        /\ trace[1].check = "session"
        /\ ~trace[1].ok =>
              /\ trace = << Checked("session", FALSE) >>
              /\ ThrownIs("missing_session")
              /\ Thrown.cause = Undefined
        /\ trace[1].ok =>
              \/ /\ trace = << Checked("session", TRUE) >>
                 /\ outcome.status = "success"
              \/ /\ trace = << Checked("session", TRUE), Checked("refresh_token", FALSE) >>
                 /\ ThrownIs("missing_refresh_token")
                 /\ Thrown.cause = Undefined
              \/ /\ trace = << Checked("session", TRUE), Checked("refresh_token", TRUE),
                               Checked("provider", TRUE) >>
                 /\ response = Undefined
                 /\ outcome.status = "success"
              \/ /\ trace = << Checked("session", TRUE), Checked("refresh_token", TRUE),
                               Checked("provider", FALSE) >>
                 /\ response # Undefined
                 /\ ThrownIs(FailureCode(kind))
                 /\ Thrown.cause # Undefined
                 /\ oauth2Errors[Thrown.cause[1]].code = response[1].code
                 /\ response[1].message # Undefined =>
                       oauth2Errors[Thrown.cause[1]].message = response[1].message[1]

====
